---------------------------- MODULE Spec2Model ----------------------------
(***************************************************************************)
(* A model of the birding assistant: agent.py (module start-up, the three  *)
(* agent configurations, BirdingAgentService.run_query, main) and setup.py *)
(* (install_requirements, setup_ebird_mcp).                                *)
(*                                                                         *)
(* Text is a sequence of one-character strings.  The session service and   *)
(* the runner are the imported framework: they are modelled by what the    *)
(* code asks of them (create_session stores a session under a fresh id,    *)
(* run_async looks the session up, appends the message and the events it   *)
(* yields, and may raise an Exception at any await).                       *)
(***************************************************************************)
EXTENDS Integers, Sequences, FiniteSets, TLC

\* ------------------------------------------------------------------ bounds
\* number of run_query calls a caller may have in progress on one service
MaxCalls == 2
\* longest stream of response events the runner yields to a single call
MaxEvents == 4
\* longest stream yielded to each of several calls on one service
MaxSharedEvents == 2
\* tool invocations recorded while the agents answer
MaxInvocations == 4
\* queries put to the orchestrator
MaxAgentQueries == 2
\* runs of the setup script
MaxRuns == 3

\* ------------------------------------------------------- program constants
\* the demonstration sequence holds three literal queries
NumQueries == 3
\* previews are cut to 600 characters
PreviewLen == 600

Max(a, b) == IF a >= b THEN a ELSE b

\* identities of run_query calls (the callers' and main's)
CallIds == 1 .. Max(MaxCalls, NumQueries)
\* session identifiers the session service may hand out
SessionIds == 1 .. Max(MaxCalls, NumQueries)

\* ------------------------------------------------------------------- text
Whitespace == {" ", "\n"}

RECURSIVE LStrip(_)
LStrip(s) ==
    IF s = <<>> THEN <<>>
    ELSE IF Head(s) \in Whitespace THEN LStrip(Tail(s)) ELSE s

RECURSIVE RStrip(_)
RStrip(s) ==
    IF s = <<>> THEN <<>>
    ELSE IF s[Len(s)] \in Whitespace THEN RStrip(SubSeq(s, 1, Len(s) - 1)) ELSE s

\* str.strip(): leading and trailing whitespace removed, inner whitespace kept
Strip(s) == RStrip(LStrip(s))

\* f"Error: {str(e)}" without its prefix
ErrorString_noPrefix(m) == m

\* f"Error: {str(e)}"
ErrorString(m) == <<"E", "r", "r", "o", "r", ":", " ">> \o m

\* the messages str(e) of the failures the framework raises
Msgs == {<<>>, <<"x">>}
FewMsgs == {<<"x">>}
SessionNotFound == <<"n", "f">>
NoFailure == <<"-">>

\* the texts a final-output fragment may carry
Texts == {<<>>, <<"a">>, <<" ", "b">>, <<"\n">>}

\* a streamed response event, as far as run_query reads it: whether
\* event.response, .output and .final are present, and final.text
Event(r, o, f, t) == [response |-> r, output |-> o, final |-> f, text |-> t]

Events ==
    {Event(FALSE, FALSE, FALSE, <<>>), Event(TRUE, FALSE, FALSE, <<>>),
     Event(TRUE, TRUE, FALSE, <<>>)}
    \cup {Event(TRUE, TRUE, TRUE, t) : t \in Texts}

\* the events of the streams of concurrent calls and of the demonstration
FewEvents == {Event(TRUE, TRUE, FALSE, <<>>), Event(TRUE, TRUE, TRUE, <<"a">>)}

\* the texts a caller submits
Queries == {"", "Paris birds"}

\* queries = [...] of main
DemoQueries == <<"Birding hotspots near Boston", "Bald eagles Seattle", "Paris birds">>

\* --------------------------------------------------------- agent wiring
Agents == {"city_species_agent", "ebird_agent", "root_agent"}

\* tool references: a capability of the framework, the MCP toolset, or
\* AgentTool(agent=...)
GoogleSearch == [kind |-> "builtin", name |-> "google_search"]
EbirdToolset == [kind |-> "mcp", name |-> "ebird_toolset"]
AgentTool(a) == [kind |-> "agent", name |-> a]

\* city_species_locator_agent: tools=[google_search]
CitySpeciesTools == {GoogleSearch}

\* the domain-data agent given the search capability as well
EbirdAgentTools_withSearch == {EbirdToolset, GoogleSearch}

\* ebird_agent: tools=[ebird_toolset]
EbirdAgentTools == {EbirdToolset}

\* root_agent: tools=[AgentTool(city_species_locator_agent), AgentTool(ebird_agent)]
RootAgentTools == {AgentTool("city_species_agent"), AgentTool("ebird_agent")}

NoTools == [a \in Agents |-> {}]

\* the wiring once the module is loaded
Wiring ==
    [a \in Agents |->
        IF a = "city_species_agent" THEN CitySpeciesTools
        ELSE IF a = "ebird_agent" THEN EbirdAgentTools
        ELSE RootAgentTools]

\* ------------------------------------------------------------------ state
VARIABLES
    sessions,      \* session_service: stored sessions, by identifier
    pc,            \* where each run_query call stands
    query,         \* the text each call was given
    session,       \* the local variable session of each call (its id)
    response,      \* the local variable response of each call
    result,        \* what each call returned
    consumed,      \* the events the runner has yielded to each call
    failure,       \* the message of the failure each call met
    touched,       \* per session id, the calls that read or wrote the session
    storeWriters,  \* the calls that wrote into the session service
    mainPc,        \* where main stands
    mainIdx,       \* the index of main's loop
    printed,       \* what main has printed
    folder,        \* what is on disk at EBIRD_FOLDER: nothing, a file, a directory
    loadPc,        \* where the loading of the module agent.py stands
    built,         \* the toolset and the agents constructed so far
    tools,         \* the tool list of each agent
    serviceBuilt,  \* whether a BirdingAgentService was constructed
    attempted,     \* the queries put to the orchestrator
    stack,         \* the agents at work: the orchestrator, then the specialist it invoked
    log,           \* the tool invocations made, in order
    lastResult,    \* what the last tool invocation of the agent at work yielded
    setupPc,       \* where setup.py stands
    cwd,           \* the working directory of the setup process
    installed,     \* the dependency manifests installed on the machine
    subdir,        \* whether ./ebird-mcp-server exists
    out,           \* what the setup run has printed
    steps,         \* the install commands the setup run has started
    exitCode,      \* the exit status of the setup run (-1 while it runs)
    runs,          \* the setup runs started
    okRuns         \* the setup runs that ended with status 0

svcVars == <<sessions, pc, query, session, response, result, consumed, failure,
             touched, storeWriters>>
mainVars == <<mainPc, mainIdx, printed>>
agentVars == <<folder, loadPc, built, tools, serviceBuilt, attempted, stack, log, lastResult>>
setupVars == <<setupPc, cwd, installed, subdir, out, steps, exitCode, runs, okRuns>>
otherVars == <<mainVars, agentVars, setupVars>>
vars == <<svcVars, mainVars, agentVars, setupVars>>

\* BirdingAgentService(): an empty session service; no call yet
ServiceInit ==
    /\ sessions = <<>>
    /\ pc = [c \in CallIds |-> "idle"]
    /\ query = [c \in CallIds |-> ""]
    /\ session = [c \in CallIds |-> 0]
    /\ response = [c \in CallIds |-> <<>>]
    /\ result = [c \in CallIds |-> <<>>]
    /\ consumed = [c \in CallIds |-> <<>>]
    /\ failure = [c \in CallIds |-> NoFailure]
    /\ touched = [i \in SessionIds |-> {}]
    /\ storeWriters = {}

MainIdle ==
    /\ mainPc = "off"
    /\ mainIdx = 0
    /\ printed = <<>>

\* agent.py loaded with the server directory in place
AgentsLoaded ==
    /\ folder = "directory"
    /\ loadPc = "ready"
    /\ built = {"ebird_toolset"} \cup Agents
    /\ tools = Wiring
    /\ serviceBuilt = TRUE
    /\ attempted = 0
    /\ stack = <<>>
    /\ log = <<>>
    /\ lastResult = "none"

\* setup.py not run
SetupIdle ==
    /\ setupPc = "off"
    /\ cwd = "root"
    /\ installed = {}
    /\ subdir = TRUE
    /\ out = <<>>
    /\ steps = <<>>
    /\ exitCode = -1
    /\ runs = 0
    /\ okRuns = 0

\* ------------------------------------------------------------- run_query
\* the try block spans session creation, submission and the event loop
Caught_loopOnly(stage) == stage = "stream"

Caught(stage) == stage \in {"create", "submit", "stream"}

\* except Exception as e: return f"Error: {str(e)}"; a failure outside the
\* try block reaches the caller.  The failures are Exceptions, the class the
\* handler names; cancellation of the caller's task and KeyboardInterrupt are
\* no failures of the call and are left out.
Raise(c, m) ==
    /\ failure' = [failure EXCEPT ![c] = m]
    /\ IF Caught(pc[c])
       THEN /\ pc' = [pc EXCEPT ![c] = "returned"]
            /\ result' = [result EXCEPT ![c] = ErrorString(m)]
       ELSE /\ pc' = [pc EXCEPT ![c] = "raised"]
            /\ UNCHANGED result

\* a caller calls run_query(q)
RunQuery(c, q) ==
    /\ pc[c] = "idle"
    /\ pc' = [pc EXCEPT ![c] = "create"]
    /\ query' = [query EXCEPT ![c] = q]
    /\ UNCHANGED <<sessions, session, response, result, consumed, failure,
                   touched, storeWriters>>

\* create_session(state={}, app_name="birding_app", user_id="test"): no
\* session_id is passed, so the service stores the session under a fresh id
NewSession(c) == [app_name |-> "birding_app", user_id |-> "test", state |-> {},
                  messages |-> <<>>, nevents |-> 0, creator |-> c]

CreateSession(c) ==
    /\ pc[c] = "create"
    /\ \E id \in SessionIds \ DOMAIN sessions :
         /\ sessions' = sessions @@ (id :> NewSession(c))
         /\ session' = [session EXCEPT ![c] = id]
         /\ touched' = [touched EXCEPT ![id] = @ \cup {c}]
    /\ storeWriters' = storeWriters \cup {c}
    /\ response' = [response EXCEPT ![c] = <<>>]
    /\ pc' = [pc EXCEPT ![c] = "submit"]
    /\ UNCHANGED <<query, result, consumed, failure>>

\* run_async(session_id=...) with one session identifier for every call
SubmitSessionId_fixed(c) == 1

\* run_async(session_id=session.id, ...)
SubmitSessionId(c) == session[c]

\* the first step of run_async: the runner looks the session up and appends
\* the user-role message Content(role="user", parts=[Part(text=query)])
SubmitMessage(c) ==
    /\ pc[c] = "submit"
    /\ LET sid == SubmitSessionId(c) IN
         IF sid \in DOMAIN sessions
         THEN /\ sessions' = [sessions EXCEPT ![sid].messages =
                                  Append(@, [role |-> "user", text |-> query[c], by |-> c])]
              /\ touched' = [touched EXCEPT ![sid] = @ \cup {c}]
              /\ storeWriters' = storeWriters \cup {c}
              /\ pc' = [pc EXCEPT ![c] = "stream"]
              /\ UNCHANGED <<result, failure>>
         ELSE /\ Raise(c, SessionNotFound)
              /\ UNCHANGED <<sessions, touched, storeWriters>>
    /\ UNCHANGED <<query, session, response, consumed>>

\* event.response and event.response.output and event.response.output.final
\* and event.response.output.final.text
IsFinalText(e) == e.response /\ e.output /\ e.final /\ e.text # <<>>

\* the fragment put in front of what was accumulated
Accumulate_prepend(c, e) == [response EXCEPT ![c] = e.text \o @]

\* an accumulator shared by the calls of the service
Accumulate_shared(c, e) == [k \in CallIds |-> response[c] \o e.text]

\* response += event.response.output.final.text
Accumulate(c, e) == [response EXCEPT ![c] = @ \o e.text]

\* one turn of the async for loop: the runner appends the event to the
\* session and yields it
ConsumeEvent(c, e, limit) ==
    /\ pc[c] = "stream"
    /\ Len(consumed[c]) < limit
    /\ consumed' = [consumed EXCEPT ![c] = Append(@, e)]
    /\ LET sid == SubmitSessionId(c) IN
         /\ sessions' = [sessions EXCEPT ![sid].nevents = @ + 1]
         /\ touched' = [touched EXCEPT ![sid] = @ \cup {c}]
    /\ storeWriters' = storeWriters \cup {c}
    /\ response' = IF IsFinalText(e) THEN Accumulate(c, e) ELSE response
    /\ UNCHANGED <<pc, query, session, result, failure>>

\* the sessions the service holds once a call has returned: run_query never
\* deletes its session
SessionsAfterReturn_deleting(c) ==
    [i \in DOMAIN sessions \ {session[c]} |-> sessions[i]]

SessionsAfterReturn(c) == sessions

\* the stream ends: return response.strip()
ReturnResponse(c) ==
    /\ pc[c] = "stream"
    /\ result' = [result EXCEPT ![c] = Strip(response[c])]
    /\ pc' = [pc EXCEPT ![c] = "returned"]
    /\ sessions' = SessionsAfterReturn(c)
    /\ UNCHANGED <<query, session, response, consumed, failure, touched, storeWriters>>

\* create_session, the submission or the stream raises an Exception
HandleException(c, m) ==
    /\ pc[c] \in {"create", "submit", "stream"}
    /\ Raise(c, m)
    /\ sessions' = SessionsAfterReturn(c)
    /\ UNCHANGED <<query, session, response, consumed, touched, storeWriters>>

\* ------------------------------------------------------------------- main
\* print(response[:600] + "..." if len(response) > 600 else response)
Preview(r) ==
    IF Len(r) > PreviewLen THEN SubSeq(r, 1, PreviewLen) \o <<".", ".", ".">> ELSE r

\* service = BirdingAgentService(); print("PROGRAMMATIC TESTS:")
MainConstruct ==
    /\ mainPc = "start"
    /\ mainPc' = "loop"
    /\ printed' = Append(printed, [kind |-> "header", text |-> <<>>])
    /\ UNCHANGED <<mainIdx, svcVars>>

\* for query in queries: print the query, then await service.run_query(query)
MainSubmit ==
    /\ mainPc = "loop"
    /\ mainIdx < Len(DemoQueries)
    /\ mainIdx' = mainIdx + 1
    /\ printed' = Append(printed, [kind |-> "query", text |-> DemoQueries[mainIdx + 1]])
    /\ RunQuery(mainIdx + 1, DemoQueries[mainIdx + 1])
    /\ mainPc' = "await"

\* run_query has ended: print the preview; an exception of run_query would
\* leave main
MainPreview ==
    /\ mainPc = "await"
    /\ pc[mainIdx] \in {"returned", "raised"}
    /\ IF pc[mainIdx] = "returned"
       THEN /\ printed' = Append(printed, [kind |-> "preview",
                                           text |-> Preview(result[mainIdx])])
            /\ mainPc' = "sleep"
       ELSE /\ mainPc' = "crashed"
            /\ UNCHANGED printed
    /\ UNCHANGED <<mainIdx, svcVars>>

\* await asyncio.sleep(1), then the next query or the end of the loop
MainSleep ==
    /\ mainPc = "sleep"
    /\ mainPc' = IF mainIdx < Len(DemoQueries) THEN "loop" ELSE "done"
    /\ UNCHANGED <<mainIdx, printed, svcVars>>

\* ------------------------------------------------- loading agent.py
\* EBIRD_FOLDER.exists(): true of a directory and of any other file
FolderExists == folder # "absent"

\* if not EBIRD_FOLDER.exists(): raise FileNotFoundError(...)
LoadCheck ==
    /\ loadPc = "check"
    /\ loadPc' = IF FolderExists THEN "toolset" ELSE "failed"
    /\ UNCHANGED <<folder, built, tools, serviceBuilt, attempted, stack, log, lastResult>>

\* ebird_toolset = McpToolset(...): the parameters are kept, no process starts
BuildToolset ==
    /\ loadPc = "toolset"
    /\ built' = built \cup {"ebird_toolset"}
    /\ loadPc' = "city_species_agent"
    /\ UNCHANGED <<folder, tools, serviceBuilt, attempted, stack, log, lastResult>>

\* city_species_locator_agent = LlmAgent(..., tools=[google_search])
BuildCitySpeciesAgent ==
    /\ loadPc = "city_species_agent"
    /\ built' = built \cup {"city_species_agent"}
    /\ tools' = [tools EXCEPT !["city_species_agent"] = CitySpeciesTools]
    /\ loadPc' = "ebird_agent"
    /\ UNCHANGED <<folder, serviceBuilt, attempted, stack, log, lastResult>>

\* ebird_agent = LlmAgent(..., tools=[ebird_toolset])
BuildEbirdAgent ==
    /\ loadPc = "ebird_agent"
    /\ built' = built \cup {"ebird_agent"}
    /\ tools' = [tools EXCEPT !["ebird_agent"] = EbirdAgentTools]
    /\ loadPc' = "root_agent"
    /\ UNCHANGED <<folder, serviceBuilt, attempted, stack, log, lastResult>>

\* root_agent = LlmAgent(..., tools=[AgentTool(...), AgentTool(...)]);
\* logger.info("All 3 agents ready")
BuildRootAgent ==
    /\ loadPc = "root_agent"
    /\ built' = built \cup {"root_agent"}
    /\ tools' = [tools EXCEPT !["root_agent"] = RootAgentTools]
    /\ loadPc' = "ready"
    /\ UNCHANGED <<folder, serviceBuilt, attempted, stack, log, lastResult>>

\* BirdingAgentService(): possible once the module is loaded
BuildService ==
    /\ loadPc = "ready"
    /\ ~serviceBuilt
    /\ serviceBuilt' = TRUE
    /\ UNCHANGED <<folder, loadPc, built, tools, attempted, stack, log, lastResult>>

\* ------------------------------------------------- the agents at work
Top == stack[Len(stack)]

\* run_query hands a message to the runner, which runs root_agent
StartAgentQuery ==
    /\ serviceBuilt
    /\ stack = <<>>
    /\ attempted < MaxAgentQueries
    /\ attempted' = attempted + 1
    /\ stack' = <<"root_agent">>
    /\ lastResult' = "none"
    /\ UNCHANGED <<folder, loadPc, built, tools, serviceBuilt, log>>

Invocation(t) == [by |-> Top, tool |-> t.name, under |-> SubSeq(stack, 1, Len(stack) - 1)]

\* the agent at work invokes a specialist wrapped as AgentTool
InvokeAgentTool ==
    /\ stack # <<>>
    /\ Len(log) < MaxInvocations
    /\ \E t \in tools[Top] :
         /\ t.kind = "agent"
         /\ log' = Append(log, Invocation(t))
         /\ stack' = Append(stack, t.name)
    /\ lastResult' = "none"
    /\ UNCHANGED <<folder, loadPc, built, tools, serviceBuilt, attempted>>

\* the agent at work invokes google_search
InvokeSearch ==
    /\ stack # <<>>
    /\ Len(log) < MaxInvocations
    /\ \E t \in tools[Top] :
         /\ t.kind = "builtin"
         /\ log' = Append(log, Invocation(t))
    /\ lastResult' \in {"data", "empty"}
    /\ UNCHANGED <<folder, loadPc, built, tools, serviceBuilt, attempted, stack>>

\* the agent at work invokes an operation of the MCP toolset; the server
\* process starts in cwd=EBIRD_FOLDER, which only a directory allows
InvokeMcpTool ==
    /\ stack # <<>>
    /\ Len(log) < MaxInvocations
    /\ \E t \in tools[Top] :
         /\ t.kind = "mcp"
         /\ log' = Append(log, Invocation(t))
    /\ lastResult' \in (IF folder = "directory" THEN {"data", "empty"} ELSE {"error"})
    /\ UNCHANGED <<folder, loadPc, built, tools, serviceBuilt, attempted, stack>>

\* the agent at work gives its answer, to the agent that invoked it or to
\* run_query
Answer ==
    /\ stack # <<>>
    /\ stack' = SubSeq(stack, 1, Len(stack) - 1)
    /\ lastResult' = IF Len(stack) > 1 THEN "data" ELSE "none"
    /\ UNCHANGED <<folder, loadPc, built, tools, serviceBuilt, attempted, log>>

\* ------------------------------------------------------------- setup.py
AllManifests == {"python", "node"}

\* what pip install -r / npm install may do: with its manifest installed
\* already the command has nothing to do and exits 0; else it may fail
CommandOutcomes(manifest) == IF manifest \in installed THEN {TRUE} ELSE {TRUE, FALSE}

\* print("Setting up Birding Agent...")
SetupStart ==
    /\ setupPc = "start"
    /\ out' = Append(out, "setting up")
    /\ setupPc' = "pip"
    /\ UNCHANGED <<cwd, installed, subdir, steps, exitCode, runs, okRuns>>

\* install_requirements(): check_call raises when pip exits non-zero, and the
\* uncaught exception ends the script with status 1
InstallRequirements ==
    /\ setupPc = "pip"
    /\ steps' = Append(steps, "pip")
    /\ \E ok \in CommandOutcomes("python") :
         IF ok /\ cwd = "root"
         THEN /\ installed' = installed \cup {"python"}
              /\ out' = Append(out, "python dependencies installed")
              /\ setupPc' = "chdir"
              /\ UNCHANGED exitCode
         ELSE /\ setupPc' = "failed"
              /\ exitCode' = 1
              /\ UNCHANGED <<installed, out>>
    /\ UNCHANGED <<cwd, subdir, runs, okRuns>>

\* os.chdir("ebird-mcp-server")
EnterServerDir ==
    /\ setupPc = "chdir"
    /\ IF subdir /\ cwd = "root"
       THEN /\ cwd' = "ebird-mcp-server"
            /\ setupPc' = "npm"
            /\ UNCHANGED exitCode
       ELSE /\ setupPc' = "failed"
            /\ exitCode' = 1
            /\ UNCHANGED cwd
    /\ UNCHANGED <<installed, subdir, out, steps, runs, okRuns>>

\* subprocess.check_call(["npm", "install"]); print("eBird MCP server ready!")
NpmInstall ==
    /\ setupPc = "npm"
    /\ steps' = Append(steps, "npm")
    /\ \E ok \in CommandOutcomes("node") :
         IF ok
         THEN /\ installed' = installed \cup {"node"}
              /\ out' = Append(out, "server ready")
              /\ setupPc' = "back"
              /\ UNCHANGED exitCode
         ELSE /\ setupPc' = "failed"
              /\ exitCode' = 1
              /\ UNCHANGED <<installed, out>>
    /\ UNCHANGED <<cwd, subdir, runs, okRuns>>

\* the directory is not left again
ParentDir_stay(d) == d

\* the directory ".." names
ParentDir(d) == IF d = "ebird-mcp-server" THEN "root" ELSE "outside"

\* os.chdir("..")
LeaveServerDir ==
    /\ setupPc = "back"
    /\ cwd' = ParentDir(cwd)
    /\ setupPc' = "ready"
    /\ UNCHANGED <<installed, subdir, out, steps, exitCode, runs, okRuns>>

\* print("Ready! Run: adk web"); the script ends with status 0
SetupReady ==
    /\ setupPc = "ready"
    /\ out' = Append(out, "ready")
    /\ setupPc' = "done"
    /\ exitCode' = 0
    /\ okRuns' = okRuns + 1
    /\ UNCHANGED <<cwd, installed, subdir, steps, runs>>

\* setup.py is run again, a new process in the project directory
SetupAgain ==
    /\ setupPc \in {"done", "failed"}
    /\ runs < MaxRuns
    /\ runs' = runs + 1
    /\ setupPc' = "start"
    /\ cwd' = "root"
    /\ out' = <<>>
    /\ steps' = <<>>
    /\ exitCode' = -1
    /\ UNCHANGED <<installed, subdir, okRuns>>

\* ---------------------------------------------------- the specifications
Init == ServiceInit /\ MainIdle /\ AgentsLoaded /\ SetupIdle

\* callers with up to MaxCalls calls in progress at once on one service
Next ==
    \/ \E c \in 1 .. MaxCalls : RunQuery(c, "Paris birds") /\ UNCHANGED otherVars
    \/ \E c \in 1 .. MaxCalls : CreateSession(c) /\ UNCHANGED otherVars
    \/ \E c \in 1 .. MaxCalls : SubmitMessage(c) /\ UNCHANGED otherVars
    \/ \E c \in 1 .. MaxCalls : \E e \in FewEvents :
           ConsumeEvent(c, e, MaxSharedEvents) /\ UNCHANGED otherVars
    \/ \E c \in 1 .. MaxCalls : ReturnResponse(c) /\ UNCHANGED otherVars
    \/ \E c \in 1 .. MaxCalls : \E m \in FewMsgs : HandleException(c, m) /\ UNCHANGED otherVars

Spec == Init /\ [][Next]_vars

\* one call, over every text, kind of event and failure
NextQuery ==
    \/ \E q \in Queries : RunQuery(1, q) /\ UNCHANGED otherVars
    \/ CreateSession(1) /\ UNCHANGED otherVars
    \/ SubmitMessage(1) /\ UNCHANGED otherVars
    \/ \E e \in Events : ConsumeEvent(1, e, MaxEvents) /\ UNCHANGED otherVars
    \/ ReturnResponse(1) /\ UNCHANGED otherVars
    \/ \E m \in Msgs : HandleException(1, m) /\ UNCHANGED otherVars

SpecQuery == Init /\ [][NextQuery]_vars

\* python agent.py: asyncio.run(main())
InitMain ==
    /\ ServiceInit /\ AgentsLoaded /\ SetupIdle
    /\ mainPc = "start" /\ mainIdx = 0 /\ printed = <<>>

NextMain ==
    \/ MainConstruct /\ UNCHANGED <<agentVars, setupVars>>
    \/ MainSubmit /\ UNCHANGED <<agentVars, setupVars>>
    \/ MainPreview /\ UNCHANGED <<agentVars, setupVars>>
    \/ MainSleep /\ UNCHANGED <<agentVars, setupVars>>
    \/ mainPc = "await" /\ CreateSession(mainIdx) /\ UNCHANGED otherVars
    \/ mainPc = "await" /\ SubmitMessage(mainIdx) /\ UNCHANGED otherVars
    \/ /\ mainPc = "await"
       /\ \E e \in FewEvents : ConsumeEvent(mainIdx, e, MaxSharedEvents)
       /\ UNCHANGED otherVars
    \/ mainPc = "await" /\ ReturnResponse(mainIdx) /\ UNCHANGED otherVars
    \/ /\ mainPc = "await"
       /\ \E m \in FewMsgs : HandleException(mainIdx, m)
       /\ UNCHANGED otherVars

SpecMain == InitMain /\ [][NextMain]_vars

\* agent.py is imported, whatever is on disk at EBIRD_FOLDER; then a service
\* is built and the orchestrator answers queries
InitAgents ==
    /\ ServiceInit /\ MainIdle /\ SetupIdle
    /\ folder \in {"absent", "file", "directory"}
    /\ loadPc = "check"
    /\ built = {}
    /\ tools = NoTools
    /\ serviceBuilt = FALSE
    /\ attempted = 0
    /\ stack = <<>>
    /\ log = <<>>
    /\ lastResult = "none"

NextAgents ==
    \/ LoadCheck /\ UNCHANGED <<svcVars, mainVars, setupVars>>
    \/ BuildToolset /\ UNCHANGED <<svcVars, mainVars, setupVars>>
    \/ BuildCitySpeciesAgent /\ UNCHANGED <<svcVars, mainVars, setupVars>>
    \/ BuildEbirdAgent /\ UNCHANGED <<svcVars, mainVars, setupVars>>
    \/ BuildRootAgent /\ UNCHANGED <<svcVars, mainVars, setupVars>>
    \/ BuildService /\ UNCHANGED <<svcVars, mainVars, setupVars>>
    \/ StartAgentQuery /\ UNCHANGED <<svcVars, mainVars, setupVars>>
    \/ InvokeAgentTool /\ UNCHANGED <<svcVars, mainVars, setupVars>>
    \/ InvokeSearch /\ UNCHANGED <<svcVars, mainVars, setupVars>>
    \/ InvokeMcpTool /\ UNCHANGED <<svcVars, mainVars, setupVars>>
    \/ Answer /\ UNCHANGED <<svcVars, mainVars, setupVars>>

SpecAgents == InitAgents /\ [][NextAgents]_vars

\* python setup.py, on a machine with any of the manifests installed already
InitSetup ==
    /\ ServiceInit /\ MainIdle /\ AgentsLoaded
    /\ setupPc = "start"
    /\ cwd = "root"
    /\ installed \in SUBSET AllManifests
    /\ subdir \in BOOLEAN
    /\ out = <<>>
    /\ steps = <<>>
    /\ exitCode = -1
    /\ runs = 1
    /\ okRuns = 0

NextSetup ==
    \/ SetupStart /\ UNCHANGED <<svcVars, mainVars, agentVars>>
    \/ InstallRequirements /\ UNCHANGED <<svcVars, mainVars, agentVars>>
    \/ EnterServerDir /\ UNCHANGED <<svcVars, mainVars, agentVars>>
    \/ NpmInstall /\ UNCHANGED <<svcVars, mainVars, agentVars>>
    \/ LeaveServerDir /\ UNCHANGED <<svcVars, mainVars, agentVars>>
    \/ SetupReady /\ UNCHANGED <<svcVars, mainVars, agentVars>>
    \/ SetupAgain /\ UNCHANGED <<svcVars, mainVars, agentVars>>

SpecSetup == InitSetup /\ [][NextSetup]_vars

\* ------------------------------------------------------- the properties
ErrorPrefix == <<"E", "r", "r", "o", "r", ":", " ">>

Ended(c) == pc[c] \in {"returned", "raised"}
Failed(c) == failure[c] # NoFailure
InProgress(c) == pc[c] \in {"create", "submit", "stream"}
HasSession(c) == session[c] # 0

\* the texts of the final-output fragments of a stream, joined in stream order
RECURSIVE JoinFinalTexts(_)
JoinFinalTexts(stream) ==
    IF stream = <<>> THEN <<>>
    ELSE LET e == Head(stream) IN
         (IF e.response /\ e.output /\ e.final /\ Len(e.text) > 0 THEN e.text ELSE <<>>)
             \o JoinFinalTexts(Tail(stream))

\* r is s without its leading and trailing whitespace
IsTrimOf(r, s) ==
    \E i \in 1 .. Len(s) + 1 : \E j \in 0 .. Len(s) :
        /\ r = SubSeq(s, i, j)
        /\ \A k \in 1 .. Len(s) : (k < i \/ k > j) => s[k] \in Whitespace
        /\ r # <<>> => r[1] \notin Whitespace /\ r[Len(r)] \notin Whitespace
        /\ r = <<>> => \A k \in 1 .. Len(s) : s[k] \in Whitespace

\* C1: run_query never raises to its caller: a call that met a failure while
\* creating its session, submitting its message or consuming events (fragments
\* accumulated or not) has returned "Error: " followed by the failure's
\* message, and every call that ended has returned a text.
C1_NeverRaises ==
    \A c \in CallIds :
        /\ pc[c] # "raised"
        /\ Failed(c) => pc[c] = "returned" /\ result[c] = ErrorPrefix \o failure[c]
        /\ Ended(c) => result[c] \in Seq({"E", "r", "o", ":", " ", "x", "a", "b", "\n"})

C1_FailedAfterFragments ==
    /\ pc[1] = "returned"
    /\ failure[1] = <<"x">>
    /\ response[1] = <<"a", " ", "b">>
    /\ result[1] = <<"E", "r", "r", "o", "r", ":", " ", "x">>

\* C2: a call whose stream completed without failure returns the trimmed
\* concatenation, in stream order, of the texts of exactly the events that are
\* final-output fragments with non-empty text.
C2_TrimmedConcatenation ==
    \A c \in CallIds :
        (pc[c] = "returned" /\ ~Failed(c)) =>
            IsTrimOf(result[c], JoinFinalTexts(consumed[c]))

C2_FragmentsJoinedAndTrimmed ==
    /\ pc[1] = "returned"
    /\ ~Failed(1)
    /\ consumed[1] = <<Event(TRUE, TRUE, TRUE, <<"a">>), Event(TRUE, TRUE, FALSE, <<>>),
                       Event(TRUE, TRUE, TRUE, <<" ", "b">>), Event(TRUE, TRUE, TRUE, <<"\n">>)>>
    /\ result[1] = <<"a", " ", "b">>

\* C3: every call creates exactly one new session, its message goes to that
\* session and to no other, and no session identifier serves two calls.
C3_OneFreshSessionPerCall ==
    /\ \A c \in CallIds :
         LET mine == {i \in DOMAIN sessions : sessions[i].creator = c} IN
         /\ Cardinality(mine) <= 1
         /\ pc[c] \in {"submit", "stream"} => mine = {session[c]}
         /\ (pc[c] = "returned" /\ HasSession(c)) => mine = {session[c]}
         /\ pc[c] = "stream" => Len(sessions[session[c]].messages) = 1
    /\ \A i \in DOMAIN sessions :
         /\ Len(sessions[i].messages) <= 1
         /\ \A k \in 1 .. Len(sessions[i].messages) :
              /\ sessions[i].messages[k].by = sessions[i].creator
              /\ sessions[i].messages[k].text = query[sessions[i].creator]
         /\ touched[i] \subseteq {sessions[i].creator}
    /\ \A c1, c2 \in CallIds :
         (c1 # c2 /\ HasSession(c1) /\ HasSession(c2)) => session[c1] # session[c2]

C3_TwoCallsSameText ==
    /\ pc[1] = "stream" /\ pc[2] = "returned"
    /\ query[1] = query[2]
    /\ HasSession(1) /\ HasSession(2) /\ session[1] # session[2]
    /\ Len(sessions[session[2]].messages) = 1

\* C4 as stated: calls in progress at once write no common mutable state.
C4_NoSharedMutableState ==
    \A c1, c2 \in CallIds :
        (c1 # c2 /\ InProgress(c1) /\ InProgress(c2)) =>
            ~(c1 \in storeWriters /\ c2 \in storeWriters)

\* C4: under every interleaving the one mutable state that calls in progress
\* at once have in common is the session store of the service; in it each call
\* reads and writes the entry of its own session only, and the text a call
\* returns is built from the events of its own stream only.
C4_OnlySessionStoreShared ==
    /\ \A i \in DOMAIN sessions : touched[i] \subseteq {sessions[i].creator}
    /\ \A i \in SessionIds \ DOMAIN sessions : touched[i] = {}
    /\ tools = Wiring /\ built = {"ebird_toolset"} \cup Agents
    /\ \A c \in CallIds :
         /\ pc[c] = "stream" => response[c] = JoinFinalTexts(consumed[c])
         /\ (pc[c] = "returned" /\ ~Failed(c)) =>
                IsTrimOf(result[c], JoinFinalTexts(consumed[c]))
         /\ HasSession(c) => sessions[session[c]].nevents = Len(consumed[c])

C4_TwoStreamsInterleaved ==
    /\ pc[1] = "stream" /\ pc[2] = "stream"
    /\ response[1] = <<"a", "a">>
    /\ response[2] = <<"a">>
    /\ Len(consumed[2]) = 2
    /\ {1, 2} \subseteq storeWriters

\* C5 as stated: once a call has returned the service no longer holds its
\* session, so it holds no more sessions than there are calls in progress.
C5_SessionDroppedOnReturn ==
    /\ \A c \in CallIds : (pc[c] = "returned" /\ HasSession(c)) => session[c] \notin DOMAIN sessions
    /\ Cardinality(DOMAIN sessions) <= Cardinality({c \in CallIds : InProgress(c)})

\* C5: a session is read and written by the call that created it and by no
\* other, and no later call uses it; but the service keeps it in its in-memory
\* store after the call has returned, so the service holds one session for
\* every call that got as far as creating one.
C5_SessionKeptButUnshared ==
    /\ \A c \in CallIds :
         HasSession(c) =>
             /\ session[c] \in DOMAIN sessions
             /\ sessions[session[c]].creator = c
             /\ touched[session[c]] = {c}
    /\ Cardinality(DOMAIN sessions) = Cardinality({c \in CallIds : HasSession(c)})

C5_TwoReturnedTwoStored ==
    /\ pc[1] = "returned" /\ pc[2] = "returned"
    /\ ~Failed(1) /\ Failed(2)
    /\ Cardinality(DOMAIN sessions) = 2

\* C10: main submits the three demonstration queries to one service, one at a
\* time and in their order; a query is submitted only after the one before it
\* has returned and its preview is printed; main never stops early, and when it
\* is done all three were executed and previewed, a failed one by its "Error: "
\* text.
C10_ThreeQueriesInOrder ==
    /\ mainPc # "crashed"
    /\ Cardinality({c \in CallIds : InProgress(c)}) <= 1
    /\ \A c \in CallIds :
         pc[c] # "idle" =>
             /\ c <= mainIdx
             /\ query[c] = DemoQueries[c]
             /\ \A d \in 1 .. c - 1 :
                  /\ pc[d] = "returned"
                  /\ printed[2 * d + 1] = [kind |-> "preview", text |-> Preview(result[d])]
             /\ printed[2 * c] = [kind |-> "query", text |-> DemoQueries[c]]
    /\ Len(printed) <= 1 + 2 * NumQueries
    /\ mainPc = "done" =>
         /\ mainIdx = NumQueries
         /\ Len(printed) = 1 + 2 * NumQueries
         /\ \A c \in 1 .. NumQueries :
              /\ pc[c] = "returned"
              /\ Failed(c) => printed[2 * c + 1].text = ErrorPrefix \o failure[c]

C10_DoneAfterFailedFirstQuery ==
    /\ mainPc = "done"
    /\ Failed(1) /\ ~HasSession(1)
    /\ Failed(2) /\ HasSession(2)
    /\ ~Failed(3)
    /\ printed[7].text = <<"a", "a">>

\* C6 as stated: with no server directory on disk, loading fails before the
\* tool adapter or any agent is constructed, no service is built and no query
\* is attempted.
C6_AbsentDirectoryFailsStartup ==
    folder # "directory" =>
        /\ loadPc \in {"check", "failed"}
        /\ built = {}
        /\ ~serviceBuilt
        /\ attempted = 0

\* C7 as stated: whenever the tool adapter has yielded no result to the
\* domain-data agent, the resolver agent is among the tools that agent can
\* invoke.
C7_ResolverInvokableFromDomainAgent ==
    (stack # <<>> /\ Top = "ebird_agent" /\ lastResult = "empty") =>
        AgentTool("city_species_agent") \in tools["ebird_agent"]

\* C8: the resolver agent invokes nothing but the search capability, the
\* domain-data agent nothing but the tool adapter, and the orchestrator nothing
\* but the two specialists; every search and every tool-adapter operation is
\* made by a specialist the orchestrator invoked.
C8_ToolAccessSeparated ==
    /\ \A t \in tools["city_species_agent"] : t.kind = "builtin" /\ t.name = "google_search"
    /\ \A t \in tools["ebird_agent"] : t.kind = "mcp" /\ t.name = "ebird_toolset"
    /\ \A t \in tools["root_agent"] :
         t.kind = "agent" /\ t.name \in {"city_species_agent", "ebird_agent"}
    /\ \A k \in 1 .. Len(log) :
         /\ log[k].tool = "google_search" =>
                log[k].by = "city_species_agent" /\ log[k].under = <<"root_agent">>
         /\ log[k].tool = "ebird_toolset" =>
                log[k].by = "ebird_agent" /\ log[k].under = <<"root_agent">>
         /\ log[k].by = "root_agent" =>
                log[k].tool \in {"city_species_agent", "ebird_agent"} /\ log[k].under = <<>>
         /\ log[k].by = "city_species_agent" => log[k].tool = "google_search"
         /\ log[k].by = "ebird_agent" => log[k].tool = "ebird_toolset"
    /\ Len(stack) <= 2

C8_BothSpecialistsUsed ==
    /\ Len(log) = 4
    /\ log[1] = [by |-> "root_agent", tool |-> "city_species_agent", under |-> <<>>]
    /\ log[2] = [by |-> "city_species_agent", tool |-> "google_search",
                 under |-> <<"root_agent">>]
    /\ log[3] = [by |-> "root_agent", tool |-> "ebird_agent", under |-> <<>>]
    /\ log[4] = [by |-> "ebird_agent", tool |-> "ebird_toolset", under |-> <<"root_agent">>]
    /\ lastResult = "empty"

=============================================================================
